---- MODULE Spec2Model ----
(***************************************************************************)
(* Model of BridgeService (src/src/bridge-service.ts): the pending-request *)
(* table, the per-request overall-timeout callbacks, the promises handed   *)
(* to the callers of sendRequest, and the public operations on them.       *)
(* Every public method runs to completion on the single-threaded event     *)
(* loop, so each is one action.  Time is in milliseconds.                  *)
(***************************************************************************)
EXTENDS Integers, Sequences, FiniteSets, TLC

\* ---- program constants ----
requestTimeout == 60000
dispatchStaleTimeout == 45000

\* ---- bounds of the model ----
MaxIds == 2
MaxTicks == 5
\* by how many clock steps the wall clock is set forward, and later back
MaxSkewTicks == 5
\* the clock advances in steps that hit both window edges exactly
Tick == requestTimeout - dispatchStaleTimeout
MaxTime == MaxTicks * Tick

Ids == 1..MaxIds
\* the (endpoint, data) argument pairs tried for sendRequest
Calls == {<<"get_file_tree", "p1">>, <<"set_property", "p2">>}
Responses == {"ok", "files"}
Errors == {"remote_error"}
TimeoutError == "Request timeout"
ClosedError == "Connection closed"

VARIABLES
  now,              \* the time elapsed since start: the clock that drives setTimeout
  skew,             \* what the wall clock read by Date.now() is ahead of it
  pendingRequests,  \* the Map, as its sequence of entries in insertion order
  timers,           \* armed setTimeout callbacks: request id -> due time
  promises,         \* per issued id: the promise returned by sendRequest
  sent,             \* history: per outstanding id, the arguments of sendRequest
  claimLog,         \* history: per outstanding id, the times getPendingRequest returned it
  redelivered,      \* history: the ids getPendingRequest has returned more than once
  lastOp            \* history: the operation that produced this state: its name, the
                    \* request id it was about (0 = none) and what it returned (for
                    \* resolveRequest/rejectRequest: the value or error it settled with; for
                    \* clearAllPendingRequests: the two diagnostic counts before it)

vars == <<now, skew, pendingRequests, timers, promises, sent, claimLog, redelivered, lastOp>>

\* ---- helpers over the Map ----
\* Date.now(): the wall clock
DateNow == now + skew

Keys(m) == {m[i].id : i \in DOMAIN m}
Has(m, id) == id \in Keys(m)
\* Map.delete that leaves the entry in place
Delete_kept(m, id) == m

Delete(m, id) == SelectSeq(m, LAMBDA r : r.id # id)

\* the history kept for the requests still in the table m
Live(h, m) == [k \in DOMAIN h \cap Keys(m) |-> h[k]]

\* uuidv4(): an identifier never issued before
uuidv4 == Cardinality(DOMAIN promises) + 1

\* the promise's resolve/reject closures: the first call settles, later calls
\* are ignored by the promise but still counted as invocations
Settle(p, st, v) ==
  [state |-> IF p.state = "pending" THEN st ELSE p.state,
   value |-> IF p.state = "pending" THEN v ELSE p.value,
   calls |-> p.calls + 1]

NoRet == <<>>
Op(name, id, ret) == [op |-> name, id |-> id, ret |-> ret]

Init ==
  /\ now = 0
  /\ skew = 0
  /\ pendingRequests = <<>>
  /\ timers = <<>>
  /\ promises = <<>>
  /\ sent = <<>>
  /\ claimLog = <<>>
  /\ redelivered = {}
  /\ lastOp = Op("init", 0, NoRet)

\* ---- timers ----
\* setTimeout that arms nothing
setTimeout_lost(ts, id, due) == ts

\* setTimeout(callback, delay): arms the callback of request id, due at `due`
setTimeout(ts, id, due) == (id :> due) @@ ts

\* clearTimeout that leaves the callback armed
clearTimeout_kept(ts, id) == ts

\* clearTimeout(timeoutId): disarms it
clearTimeout(ts, id) == [k \in DOMAIN ts \ {id} |-> ts[k]]

\* ---- sendRequest ----
sendRequest(endpoint, data) ==
  LET requestId == uuidv4 IN
  /\ requestId \in Ids
  /\ now + requestTimeout <= MaxTime
  /\ timers' = setTimeout(timers, requestId, now + requestTimeout)
  /\ pendingRequests' = Append(pendingRequests,
        [id |-> requestId, endpoint |-> endpoint, data |-> data,
         timestamp |-> DateNow, dispatched |-> FALSE, dispatchedAt |-> 0])
  /\ promises' = (requestId :> [state |-> "pending", value |-> "", calls |-> 0]) @@ promises
  /\ sent' = (requestId :> [endpoint |-> endpoint, data |-> data, at |-> now]) @@ sent
  /\ claimLog' = (requestId :> <<>>) @@ claimLog
  /\ lastOp' = Op("sendRequest", requestId, NoRet)
  /\ UNCHANGED <<now, skew, redelivered>>

\* the setTimeout callback of sendRequest, run by the event loop once due
TimeoutCallback(requestId) ==
  /\ requestId \in DOMAIN timers
  /\ now >= timers[requestId]
  /\ timers' = clearTimeout(timers, requestId)
  /\ IF Has(pendingRequests, requestId)
       THEN /\ pendingRequests' = Delete(pendingRequests, requestId)
            /\ promises' = [promises EXCEPT ![requestId] = Settle(@, "rejected", TimeoutError)]
       ELSE UNCHANGED <<pendingRequests, promises>>
  /\ lastOp' = Op("timeout", requestId, NoRet)
  /\ sent' = Live(sent, pendingRequests')
  /\ claimLog' = Live(claimLog, pendingRequests')
  /\ UNCHANGED <<now, skew, redelivered>>

\* ---- getPendingRequest ----
\* a staleness test that never lets a claim lapse
IsStale_never(request, t) == FALSE

\* the staleness test with the 45s edge included
IsStale_inclusive(request, t) == t - request.dispatchedAt >= dispatchStaleTimeout

\* the staleness test on a dispatched entry
IsStale(request, t) == t - request.dispatchedAt > dispatchStaleTimeout

\* the comparison turned round: keeps the newest
Older_newest(request, oldest) == request.timestamp > oldest.timestamp

\* the comparison that replaces oldestRequest
Older(request, oldest) == request.timestamp < oldest.timestamp

\* the reply with endpoint and data exchanged
Reply_swapped(request) ==
  [requestId |-> request.id, endpoint |-> request.data, data |-> request.endpoint]

\* the object handed to the poller
Reply(request) ==
  [requestId |-> request.id, endpoint |-> request.endpoint, data |-> request.data]

\* the stale branch that leaves the entry as it is
Reset_kept(request) == request

\* the stale branch that also forgets when the request was submitted
Reset_restamped(request) ==
  [request EXCEPT !.dispatched = FALSE, !.dispatchedAt = 0, !.timestamp = 0]

\* the stale branch of the loop: the entry is put back to undispatched
Reset(request) == [request EXCEPT !.dispatched = FALSE, !.dispatchedAt = 0]

\* the for-loop over pendingRequests.values(): its state is the table (with
\* the stale entries reset so far) and the index of oldestRequest (0 = null)
RECURSIVE Scan(_, _, _, _)
Scan(m, i, oldest, t) ==
  IF i > Len(m) THEN [m |-> m, oldest |-> oldest]
  ELSE LET request == m[i] IN
    IF request.dispatched /\ ~IsStale(request, t)
      THEN Scan(m, i + 1, oldest, t)
      ELSE LET m2 == IF request.dispatched
                       THEN [m EXCEPT ![i] = Reset(request)]
                       ELSE m
               o2 == IF oldest = 0 \/ Older(m2[i], m2[oldest]) THEN i ELSE oldest
           IN Scan(m2, i + 1, o2, t)

getPendingRequest ==
  LET t == DateNow
      s == Scan(pendingRequests, 1, 0, t)
  IN
  /\ IF s.oldest # 0
       THEN LET oldestRequest == s.m[s.oldest] IN
            /\ pendingRequests' = [s.m EXCEPT ![s.oldest].dispatched = TRUE,
                                             ![s.oldest].dispatchedAt = t]
            /\ claimLog' = [claimLog EXCEPT ![oldestRequest.id] = Append(@, now)]
            /\ redelivered' = IF claimLog[oldestRequest.id] # <<>>
                                THEN redelivered \cup {oldestRequest.id}
                                ELSE redelivered
            /\ lastOp' = Op("getPendingRequest", oldestRequest.id, <<Reply(oldestRequest)>>)
       ELSE /\ pendingRequests' = s.m
            /\ lastOp' = Op("getPendingRequest", 0, NoRet)
            /\ UNCHANGED <<claimLog, redelivered>>
  /\ UNCHANGED <<now, skew, timers, promises, sent>>

\* ---- resolveRequest / rejectRequest ----
\* resolveRequest without the `if (request)` guard
resolveRequest_unguarded(requestId, response) ==
  /\ timers' = clearTimeout(timers, requestId)
  /\ pendingRequests' = Delete(pendingRequests, requestId)
  /\ promises' = [k \in DOMAIN promises |->
                    IF k = requestId THEN Settle(promises[k], "fulfilled", response)
                    ELSE promises[k]]
  /\ lastOp' = Op("resolveRequest", requestId, <<response>>)
  /\ sent' = Live(sent, pendingRequests')
  /\ claimLog' = Live(claimLog, pendingRequests')
  /\ UNCHANGED <<now, skew, redelivered>>

resolveRequest(requestId, response) ==
  /\ IF Has(pendingRequests, requestId)
       THEN /\ timers' = clearTimeout(timers, requestId)
            /\ pendingRequests' = Delete(pendingRequests, requestId)
            /\ promises' = [promises EXCEPT ![requestId] = Settle(@, "fulfilled", response)]
            /\ lastOp' = Op("resolveRequest", requestId, <<response>>)
       ELSE /\ UNCHANGED <<timers, pendingRequests, promises>>
            /\ lastOp' = Op("resolveRequest", requestId, NoRet)
  /\ sent' = Live(sent, pendingRequests')
  /\ claimLog' = Live(claimLog, pendingRequests')
  /\ UNCHANGED <<now, skew, redelivered>>

rejectRequest(requestId, error) ==
  /\ IF Has(pendingRequests, requestId)
       THEN /\ timers' = clearTimeout(timers, requestId)
            /\ pendingRequests' = Delete(pendingRequests, requestId)
            /\ promises' = [promises EXCEPT ![requestId] = Settle(@, "rejected", error)]
            /\ lastOp' = Op("rejectRequest", requestId, <<error>>)
       ELSE /\ UNCHANGED <<timers, pendingRequests, promises>>
            /\ lastOp' = Op("rejectRequest", requestId, NoRet)
  /\ sent' = Live(sent, pendingRequests')
  /\ claimLog' = Live(claimLog, pendingRequests')
  /\ UNCHANGED <<now, skew, redelivered>>

\* ---- cleanupOldRequests ----
\* the sweep test without the 60s allowance
Expired_early(request, t) == t - request.timestamp > 0

Expired(request, t) == t - request.timestamp > requestTimeout

cleanupOldRequests ==
  LET t == DateNow
      old == {pendingRequests[i].id : i \in {j \in DOMAIN pendingRequests :
                                               Expired(pendingRequests[j], t)}}
  IN
  /\ timers' = [k \in DOMAIN timers \ old |-> timers[k]]
  /\ pendingRequests' = SelectSeq(pendingRequests, LAMBDA r : r.id \notin old)
  /\ promises' = [k \in DOMAIN promises |->
                    IF k \in old THEN Settle(promises[k], "rejected", TimeoutError)
                    ELSE promises[k]]
  /\ lastOp' = Op("cleanupOldRequests", 0, NoRet)
  /\ sent' = Live(sent, pendingRequests')
  /\ claimLog' = Live(claimLog, pendingRequests')
  /\ UNCHANGED <<now, skew, redelivered>>

\* ---- diagnostics ----
getPendingCount == Len(pendingRequests)
getDispatchedCount == Cardinality({i \in DOMAIN pendingRequests : pendingRequests[i].dispatched})

\* a caller reads a diagnostic: the call returns the count and writes nothing
getPendingCountCall ==
  /\ lastOp' = Op("getPendingCount", 0, <<getPendingCount>>)
  /\ UNCHANGED <<now, skew, pendingRequests, timers, promises, sent, claimLog, redelivered>>

getDispatchedCountCall ==
  /\ lastOp' = Op("getDispatchedCount", 0, <<getDispatchedCount>>)
  /\ UNCHANGED <<now, skew, pendingRequests, timers, promises, sent, claimLog, redelivered>>

\* ---- clearAllPendingRequests ----
\* clearAllPendingRequests without the final pendingRequests.clear()
clearAllPendingRequests_kept ==
  LET all == Keys(pendingRequests) IN
  /\ timers' = [k \in DOMAIN timers \ all |-> timers[k]]
  /\ promises' = [k \in DOMAIN promises |->
                    IF k \in all THEN Settle(promises[k], "rejected", ClosedError)
                    ELSE promises[k]]
  /\ lastOp' = Op("clearAllPendingRequests", 0, <<getPendingCount, getDispatchedCount>>)
  /\ UNCHANGED <<now, skew, pendingRequests, sent, claimLog, redelivered>>

clearAllPendingRequests ==
  LET all == Keys(pendingRequests) IN
  /\ timers' = [k \in DOMAIN timers \ all |-> timers[k]]
  /\ promises' = [k \in DOMAIN promises |->
                    IF k \in all THEN Settle(promises[k], "rejected", ClosedError)
                    ELSE promises[k]]
  /\ pendingRequests' = <<>>
  /\ lastOp' = Op("clearAllPendingRequests", 0, <<getPendingCount, getDispatchedCount>>)
  /\ sent' = Live(sent, pendingRequests')
  /\ claimLog' = Live(claimLog, pendingRequests')
  /\ UNCHANGED <<now, skew, redelivered>>

\* ---- the clock ----
Advance ==
  /\ now + Tick <= MaxTime
  /\ now' = now + Tick
  /\ lastOp' = Op("tick", 0, NoRet)
  /\ UNCHANGED <<skew, pendingRequests, timers, promises, sent, claimLog, redelivered>>

\* the wall clock is set forward or back (time sync, suspend and resume)
ClockJump ==
  /\ \E d \in {MaxSkewTicks * Tick, 0 - MaxSkewTicks * Tick} :
        /\ skew + d \in 0..(MaxSkewTicks * Tick)
        /\ skew' = skew + d
  /\ lastOp' = Op("clockJump", 0, NoRet)
  /\ UNCHANGED <<now, pendingRequests, timers, promises, sent, claimLog, redelivered>>

Next ==
  \/ \E c \in Calls : sendRequest(c[1], c[2])
  \/ \E id \in Ids : TimeoutCallback(id)
  \/ getPendingRequest
  \/ \E id \in Ids, r \in Responses : resolveRequest(id, r)
  \/ \E id \in Ids, e \in Errors : rejectRequest(id, e)
  \/ cleanupOldRequests
  \/ clearAllPendingRequests
  \/ getPendingCountCall
  \/ getDispatchedCountCall
  \/ Advance

Spec == Init /\ [][Next]_vars

\* the same operations on a host whose wall clock may be set at any moment
NextClock == Next \/ ClockJump

SpecClock == Init /\ [][NextClock]_vars

\* time passes, and the event loop runs every timeout callback that is due
FairSpec ==
  /\ Spec
  /\ WF_vars(Advance)
  /\ \A id \in Ids : WF_vars(TimeoutCallback(id))

\* ---- vocabulary of the properties ----
\* the step just taken was a getPendingRequest that returned request id
Returned(id) == lastOp'.op = "getPendingRequest" /\ lastOp'.ret # NoRet /\ lastOp'.id = id
\* a dispatched entry whose claim is still live at time t
LiveDispatch(request, t) ==
  request.dispatched /\ t - request.dispatchedAt <= dispatchStaleTimeout
\* the positions of the entries a claim at time t may choose from
Eligible(m, t) == {i \in DOMAIN m : ~LiveDispatch(m[i], t)}
Settled(id) == id \in DOMAIN promises /\ promises[id].state # "pending"

\* C1 (at-most-one live dispatch): getPendingRequest never returns a request
\* whose entry is, at the call, dispatched with now - dispatchedAt <= 45s;
\* and every earlier return of the same id lies more than 45s back.
C1_AtMostOneLiveDispatch ==
  [][\A i \in DOMAIN pendingRequests :
       LET request == pendingRequests[i] IN
       Returned(request.id) =>
         /\ ~LiveDispatch(request, now)
         /\ \A k \in DOMAIN claimLog[request.id] :
               now - claimLog[request.id][k] > dispatchStaleTimeout]_vars

\* a poll came back empty although a request is in the table: its claim is live
C1_Witness ==
  /\ lastOp.op = "getPendingRequest" /\ lastOp.ret = NoRet
  /\ \E i \in DOMAIN pendingRequests :
        /\ LiveDispatch(pendingRequests[i], now)
        /\ now - pendingRequests[i].dispatchedAt = dispatchStaleTimeout

\* C2 (exactly-once settlement, safety half): the resolve/reject callbacks of
\* a request are invoked at most once in total, whatever paths run.
C2_SettledAtMostOnce ==
  \A id \in DOMAIN promises : promises[id].calls <= 1

\* a response arrived for a request the timeout had already settled
C2_Witness ==
  /\ lastOp.op \in {"resolveRequest", "rejectRequest"}
  /\ lastOp.id \in DOMAIN promises
  /\ promises[lastOp.id].value = TimeoutError
  /\ promises[lastOp.id].calls = 1

\* C3 (oldest-first): the request getPendingRequest returns has the smallest
\* timestamp among the entries eligible at the call, the first inserted
\* winning a tie.
C3_OldestFirst ==
  [][\A c \in DOMAIN pendingRequests :
       Returned(pendingRequests[c].id) =>
         /\ c \in Eligible(pendingRequests, now)
         /\ \A j \in Eligible(pendingRequests, now) :
               \/ pendingRequests[c].timestamp < pendingRequests[j].timestamp
               \/ /\ pendingRequests[c].timestamp = pendingRequests[j].timestamp
                  /\ c <= j]_vars

\* every request of the table, submitted at strictly increasing times, was
\* claimed once, in the order of submission, the last claim just now
C3_Witness ==
  /\ Len(pendingRequests) = MaxIds
  /\ \A i \in 1..MaxIds :
        /\ pendingRequests[i].dispatched
        /\ Len(claimLog[pendingRequests[i].id]) = 1
        /\ i > 1 =>
              /\ pendingRequests[i - 1].timestamp < pendingRequests[i].timestamp
              /\ claimLog[pendingRequests[i - 1].id][1] <= claimLog[pendingRequests[i].id][1]
  /\ lastOp.op = "getPendingRequest" /\ lastOp.id = pendingRequests[MaxIds].id

\* C4 (stale re-dispatch): an entry claimed more than 45s ago and still in
\* the table is claimable again: a getPendingRequest call then returns a
\* request, that entry unless an entry at least as old is returned; and a
\* call that returns an id a second time leaves the table with the same
\* entries, one per id, and getPendingCount() as it was.
C4_StaleRedispatch ==
  [][lastOp'.op = "getPendingRequest" =>
       \A i \in DOMAIN pendingRequests :
         LET request == pendingRequests[i] IN
         /\ (request.dispatched /\ now - request.dispatchedAt > dispatchStaleTimeout) =>
               /\ lastOp'.ret # NoRet
               /\ \/ lastOp'.id = request.id
                  \/ \E j \in DOMAIN pendingRequests :
                        /\ lastOp'.id = pendingRequests[j].id
                        /\ pendingRequests[j].timestamp <= request.timestamp
         /\ (Returned(request.id) /\ claimLog[request.id] # <<>>) =>
               /\ getPendingCount' = getPendingCount
               /\ [k \in DOMAIN pendingRequests' |-> pendingRequests'[k].id]
                    = [k \in DOMAIN pendingRequests |-> pendingRequests[k].id]
               /\ Cardinality(Keys(pendingRequests')) = Len(pendingRequests')
               /\ pendingRequests'[i].dispatched
               /\ pendingRequests'[i].dispatchedAt = now]_vars

\* the same id was handed out a second time, more than 45s after the first,
\* and the table holds it once
C4_Witness ==
  /\ lastOp.op = "getPendingRequest" /\ lastOp.ret # NoRet
  /\ Len(claimLog[lastOp.id]) = 2
  /\ now = claimLog[lastOp.id][2]
  /\ claimLog[lastOp.id][2] - claimLog[lastOp.id][1] > dispatchStaleTimeout
  /\ Cardinality({i \in DOMAIN pendingRequests : pendingRequests[i].id = lastOp.id}) = 1
  /\ Len(pendingRequests) = 2

\* C5 (overall timeout): a future is rejected with the timeout error only
\* when at least 60s have passed since its sendRequest, dispatched or not,
\* and from then on the request is absent from the table.
C5_OverallTimeout ==
  /\ [][\A id \in DOMAIN promises :
          (promises[id].state = "pending" /\ promises'[id].state = "rejected"
             /\ promises'[id].value = TimeoutError) =>
            /\ now >= sent[id].at + requestTimeout
            /\ ~Has(pendingRequests', id)]_vars
  /\ [](\A id \in DOMAIN promises :
          (promises[id].state = "rejected" /\ promises[id].value = TimeoutError) =>
            ~Has(pendingRequests, id))

\* the timeout callback failed a request, settling its promise exactly
\* 60s after its submission at time 0
C5_Witness ==
  /\ lastOp.op = "timeout"
  /\ now = requestTimeout
  /\ promises[lastOp.id].state = "rejected"
  /\ promises[lastOp.id].value = TimeoutError
  /\ ~Has(pendingRequests, lastOp.id)

\* C6 (idempotent terminal resolution): resolveRequest or rejectRequest with
\* an id that is not in the table changes neither the table, nor a timer,
\* nor any promise.
C6_UnknownIdNoOp ==
  [][(lastOp'.op \in {"resolveRequest", "rejectRequest"}
        /\ ~Has(pendingRequests, lastOp'.id)) =>
       UNCHANGED <<pendingRequests, timers, promises>>]_vars

\* resolveRequest came for a request rejectRequest had already settled
C6_Witness ==
  /\ lastOp.op = "resolveRequest"
  /\ lastOp.id \in DOMAIN promises
  /\ promises[lastOp.id] = [state |-> "rejected", value |-> "remote_error", calls |-> 1]
  /\ pendingRequests # <<>>

\* C7 (disconnect clears all): clearAllPendingRequests leaves the table
\* empty and both counts 0, has rejected every request that was in the table
\* exactly once with 'Connection closed', and touches no other promise; on
\* an empty table it changes nothing.
C7_ClearAll ==
  [][lastOp'.op = "clearAllPendingRequests" =>
       /\ pendingRequests' = <<>>
       /\ getPendingCount' = 0 /\ getDispatchedCount' = 0
       /\ \A id \in Keys(pendingRequests) :
             /\ promises'[id] = [state |-> "rejected", value |-> ClosedError, calls |-> 1]
             /\ id \notin DOMAIN timers'
       /\ \A id \in DOMAIN promises \ Keys(pendingRequests) : promises'[id] = promises[id]
       /\ DOMAIN promises' = DOMAIN promises
       /\ pendingRequests = <<>> => UNCHANGED <<pendingRequests, timers, promises>>]_vars

\* every request ever sent was outstanding, one of them dispatched, and all
\* were failed with 'Connection closed' by one clearAllPendingRequests
C7_Witness ==
  /\ lastOp.op = "clearAllPendingRequests" /\ lastOp.ret = <<MaxIds, 1>>
  /\ getPendingCount = 0
  /\ DOMAIN promises = Ids
  /\ \A id \in Ids :
        promises[id] = [state |-> "rejected", value |-> ClosedError, calls |-> 1]

\* C8 as stated (bounded lifetime): every entry in the table is at most 60s
\* old.
C8_NoEntryOlderThanTimeout ==
  \A i \in DOMAIN pendingRequests :
    now - pendingRequests[i].timestamp <= requestTimeout

\* C8 as amended: every entry in the table has its overall-timeout callback
\* armed, due 60s after its submission, so an entry is older than 60s only
\* while that callback is overdue; the callback removes its entry when it
\* runs, and right after cleanupOldRequests every entry is at most 60s old.
C8_BoundedLifetime ==
  /\ [](\A i \in DOMAIN pendingRequests :
          /\ pendingRequests[i].id \in DOMAIN timers
          /\ timers[pendingRequests[i].id] = pendingRequests[i].timestamp + requestTimeout)
  /\ [][/\ lastOp'.op = "timeout" => ~Has(pendingRequests', lastOp'.id)
        /\ lastOp'.op = "cleanupOldRequests" =>
             \A i \in DOMAIN pendingRequests' :
               now' - pendingRequests'[i].timestamp <= requestTimeout]_vars

\* a sweep ran past the 60s mark of a request and failed it, and left a
\* younger request in the table
C8_Witness ==
  /\ lastOp.op = "cleanupOldRequests"
  /\ now > requestTimeout
  /\ pendingRequests # <<>>
  /\ \E id \in DOMAIN promises \ DOMAIN timers :
        /\ promises[id].value = TimeoutError
        /\ \A k \in DOMAIN timers : timers[k] > now - Tick

\* C9 (eventual settlement): under fair firing of the timeout callbacks,
\* every request in the table eventually is out of the table with its
\* promise settled, whether or not anybody polls or responds.
C9_EventualSettlement ==
  \A id \in Ids :
    Has(pendingRequests, id) ~> (~Has(pendingRequests, id) /\ Settled(id))

\* all requests were submitted, none was ever answered, and every one has
\* been failed by its timeout
C9_Witness ==
  /\ pendingRequests = <<>>
  /\ DOMAIN promises = Ids
  /\ \A id \in Ids :
        promises[id] = [state |-> "rejected", value |-> TimeoutError, calls |-> 1]

\* C10 (pass-through round trip): getPendingRequest returns the id issued
\* by sendRequest with the endpoint and data given to that call; and
\* resolveRequest(id, v) / rejectRequest(id, e) on an entry in the table
\* settles the promise of that request with exactly v / e and no other.
C10_PassThrough ==
  [][/\ \A id \in Keys(pendingRequests) :
          Returned(id) =>
            lastOp'.ret = <<[requestId |-> id, endpoint |-> sent[id].endpoint,
                             data |-> sent[id].data]>>
     /\ (lastOp'.op = "resolveRequest" /\ Has(pendingRequests, lastOp'.id)) =>
          promises' = [promises EXCEPT ![lastOp'.id] =
                         [state |-> "fulfilled", value |-> lastOp'.ret[1], calls |-> 1]]
     /\ (lastOp'.op = "rejectRequest" /\ Has(pendingRequests, lastOp'.id)) =>
          promises' = [promises EXCEPT ![lastOp'.id] =
                         [state |-> "rejected", value |-> lastOp'.ret[1], calls |-> 1]]]_vars

\* a claimed request was resolved with "files" while another, sent with
\* different arguments, is still waiting
C10_Witness ==
  /\ lastOp.op = "resolveRequest" /\ lastOp.id = 1 /\ lastOp.ret = <<"files">>
  /\ DOMAIN promises = {1, 2}
  /\ promises[1] = [state |-> "fulfilled", value |-> "files", calls |-> 1]
  /\ Keys(pendingRequests) = {2}
  /\ promises[2].state = "pending"
  /\ sent[2].endpoint = "set_property"

\* C11 (core error kinds): a promise is rejected either by rejectRequest, or
\* with the timeout error by the timeout callback or the sweep and then only
\* 60s or more after its submission, or with the connection-closed error by
\* clearAllPendingRequests; and sendRequest always adds its entry, with a
\* pending promise, and settles nothing.
C11_CoreErrorKinds ==
  [][/\ \A id \in DOMAIN promises :
          (promises[id].state = "pending" /\ promises'[id].state = "rejected") =>
            \/ lastOp'.op = "rejectRequest" /\ lastOp'.id = id
            \/ /\ promises'[id].value = TimeoutError
               /\ lastOp'.op \in {"timeout", "cleanupOldRequests"}
               /\ now - sent[id].at >= requestTimeout
            \/ /\ promises'[id].value = ClosedError
               /\ lastOp'.op = "clearAllPendingRequests"
     /\ lastOp'.op = "sendRequest" =>
          /\ ~Has(pendingRequests, lastOp'.id)
          /\ Has(pendingRequests', lastOp'.id)
          /\ Len(pendingRequests') = Len(pendingRequests) + 1
          /\ promises'[lastOp'.id] = [state |-> "pending", value |-> "", calls |-> 0]
          /\ \A id \in DOMAIN promises : promises'[id] = promises[id]]_vars

\* one request was failed by the disconnect and, later, another by the sweep
C11_Witness ==
  /\ lastOp.op = "cleanupOldRequests"
  /\ DOMAIN promises = {1, 2}
  /\ promises[1] = [state |-> "rejected", value |-> ClosedError, calls |-> 1]
  /\ promises[2] = [state |-> "rejected", value |-> TimeoutError, calls |-> 1]

\* C12 (exactly-once completion despite redelivery): for an id that
\* getPendingRequest has returned more than once, the first
\* resolveRequest/rejectRequest to arrive settles the promise with the value or
\* error it carries, removes the entry and cancels its timer; every later
\* resolveRequest/rejectRequest for that id changes neither the table, nor the
\* timers, nor any promise.
C12_OneCompletionAfterRedelivery ==
  [][\A id \in redelivered :
       (lastOp'.op \in {"resolveRequest", "rejectRequest"} /\ lastOp'.id = id) =>
         IF Has(pendingRequests, id)
           THEN /\ promises[id].state = "pending"
                /\ lastOp'.ret # NoRet
                /\ promises'[id] =
                     [state |-> IF lastOp'.op = "resolveRequest" THEN "fulfilled"
                                ELSE "rejected",
                      value |-> lastOp'.ret[1],
                      calls |-> 1]
                /\ \A k \in DOMAIN promises \ {id} : promises'[k] = promises[k]
                /\ ~Has(pendingRequests', id)
                /\ id \notin DOMAIN timers'
           ELSE UNCHANGED <<pendingRequests, timers, promises>>]_vars

\* a request was returned twice, then resolved by one worker; the error response
\* of the other worker has just arrived and was ignored
C12_Witness ==
  /\ lastOp.op = "rejectRequest"
  /\ lastOp.ret = NoRet
  /\ lastOp.id \in redelivered
  /\ promises[lastOp.id].state = "fulfilled"
  /\ promises[lastOp.id].calls = 1

\* the state of request id in the spec's per-request state machine, read off
\* the table m and the promises ps
StateOf(m, ps, id) ==
  IF id \notin DOMAIN ps THEN "UNISSUED"
  ELSE IF ~Has(m, id) THEN "TERMINAL"
  ELSE IF \E i \in DOMAIN m : m[i].id = id /\ m[i].dispatched THEN "DISPATCHED"
  ELSE "SUBMITTED"

\* the step takes request id from state a to state b as the spec's diagram
\* allows: creation by sendRequest, and the five listed transitions
ListedTransition(id, a, b) ==
  \/ a = "UNISSUED" /\ b = "SUBMITTED" /\ lastOp'.op = "sendRequest" /\ lastOp'.id = id
  \/ a = "SUBMITTED" /\ b = "DISPATCHED" /\ Returned(id)
  \/ /\ a = "SUBMITTED" /\ b = "TERMINAL"
     /\ promises'[id].state = "rejected" /\ promises'[id].value = TimeoutError
     /\ now - sent[id].at >= requestTimeout
  \/ /\ a = "DISPATCHED" /\ b = "SUBMITTED"
     /\ lastOp'.op = "getPendingRequest"
     /\ now - claimLog[id][Len(claimLog[id])] > dispatchStaleTimeout
  \/ /\ a = "DISPATCHED" /\ b = "TERMINAL"
     /\ lastOp'.op \in {"resolveRequest", "rejectRequest"} /\ lastOp'.id = id
     /\ promises'[id].state \in {"fulfilled", "rejected"}
     /\ promises'[id].value = lastOp'.ret[1]
  \/ /\ a \in {"SUBMITTED", "DISPATCHED"} /\ b = "TERMINAL"
     /\ lastOp'.op = "clearAllPendingRequests"
     /\ promises'[id].state = "rejected" /\ promises'[id].value = ClosedError

\* the two transitions the code makes besides: the overall timeout of a
\* dispatched request, and a response for a request that is not (or no longer)
\* marked dispatched
UnlistedTransition(id, a, b) ==
  \/ /\ a = "DISPATCHED" /\ b = "TERMINAL"
     /\ lastOp'.op \in {"timeout", "cleanupOldRequests"}
     /\ promises'[id].state = "rejected" /\ promises'[id].value = TimeoutError
     /\ now - sent[id].at >= requestTimeout
  \/ /\ a = "SUBMITTED" /\ b = "TERMINAL"
     /\ lastOp'.op \in {"resolveRequest", "rejectRequest"} /\ lastOp'.id = id
     /\ promises'[id].state \in {"fulfilled", "rejected"}
     /\ promises'[id].value = lastOp'.ret[1]

\* a TERMINAL request stays as it is
TerminalIsFinal(id) ==
  StateOf(pendingRequests, promises, id) = "TERMINAL" =>
    /\ promises[id].state # "pending"
    /\ StateOf(pendingRequests', promises', id) = "TERMINAL"
    /\ promises'[id] = promises[id]

\* C13 as stated (per-request state machine): every state change of a request is
\* one of the listed transitions, and a TERMINAL request never changes again.
\* Violated: a dispatched request is timed out, and an undispatched one is
\* resolved.
C13_ListedTransitionsOnly ==
  [][\A id \in Ids :
       LET a == StateOf(pendingRequests, promises, id)
           b == StateOf(pendingRequests', promises', id)
       IN /\ a # b => ListedTransition(id, a, b)
          /\ TerminalIsFinal(id)]_vars

\* C13 (per-request state machine), amended: every state change of a request
\* is one of the listed transitions, or the timeout of a DISPATCHED request 60s
\* or more after its submission, or the resolve/reject of a SUBMITTED request;
\* a TERMINAL request never changes again.
C13_StateMachine ==
  [][\A id \in Ids :
       LET a == StateOf(pendingRequests, promises, id)
           b == StateOf(pendingRequests', promises', id)
       IN /\ a # b => ListedTransition(id, a, b) \/ UnlistedTransition(id, a, b)
          /\ TerminalIsFinal(id)]_vars

\* two requests were claimed and went stale; a scan put the newer one back to
\* SUBMITTED and returned the older one again, which then, DISPATCHED, was timed
\* out
C13_Witness ==
  /\ lastOp.op = "timeout"
  /\ lastOp.id \in redelivered
  /\ promises[lastOp.id].value = TimeoutError
  /\ \E id \in Keys(pendingRequests) :
        /\ StateOf(pendingRequests, promises, id) = "SUBMITTED"
        /\ claimLog[id] # <<>>

\* C14 (timer cancellation): before and after every step, a timeout callback
\* is armed for exactly the ids whose entry is in the table, so every other
\* termination path has cancelled it; and when a timeout callback runs, its own
\* request is in the table with a pending promise, and the callback removes
\* that entry, settles that promise and leaves every other entry, timer and
\* promise as it was.
C14_TimerCancellation ==
  [][/\ DOMAIN timers = Keys(pendingRequests)
     /\ DOMAIN timers' = Keys(pendingRequests')
     /\ lastOp'.op = "timeout" =>
          LET id == lastOp'.id IN
          /\ Has(pendingRequests, id)
          /\ promises[id].state = "pending"
          /\ pendingRequests' = Delete(pendingRequests, id)
          /\ timers' = [k \in DOMAIN timers \ {id} |-> timers[k]]
          /\ \A k \in DOMAIN promises \ {id} : promises'[k] = promises[k]]_vars

\* the first request was resolved before its callback was due; later the
\* callback of the second request has run while the first one's never did
C14_Witness ==
  /\ lastOp.op = "timeout"
  /\ lastOp.id = 2
  /\ DOMAIN promises = {1, 2}
  /\ promises[1].state = "fulfilled"
  /\ promises[1].calls = 1
  /\ promises[2].value = TimeoutError
  /\ timers = <<>>

\* C17 (stale-dispatch recovery is a side effect of every scan): after a
\* getPendingRequest call, every entry that was dispatched with
\* now - dispatchedAt > 45s at the call and was not the one returned has
\* dispatched = FALSE and dispatchedAt = 0, whether or not anything was
\* returned; the returned entry has dispatched = TRUE and dispatchedAt = now,
\* and no other entry was marked by the call.
C17_StaleRecovery ==
  [][lastOp'.op = "getPendingRequest" =>
       /\ Len(pendingRequests') = Len(pendingRequests)
       /\ \A i \in DOMAIN pendingRequests :
            LET before == pendingRequests[i]
                after == pendingRequests'[i]
            IN /\ after.id = before.id
               /\ IF Returned(before.id)
                    THEN after.dispatched /\ after.dispatchedAt = DateNow
                    ELSE /\ (before.dispatched
                               /\ DateNow - before.dispatchedAt > dispatchStaleTimeout) =>
                             (~after.dispatched /\ after.dispatchedAt = 0)
                         /\ after.dispatched =>
                             (before.dispatched /\ after.dispatchedAt = before.dispatchedAt)]_vars

\* two requests were claimed and both went stale; the scan has just returned
\* the older one again and put the newer one back to undispatched
C17_Witness ==
  /\ lastOp.op = "getPendingRequest"
  /\ lastOp.id = 1
  /\ Keys(pendingRequests) = {1, 2}
  /\ Len(claimLog[1]) = 2
  /\ Len(claimLog[2]) = 1
  /\ now - claimLog[2][1] > dispatchStaleTimeout
  /\ \E i \in DOMAIN pendingRequests :
        /\ pendingRequests[i].id = 2
        /\ ~pendingRequests[i].dispatched
        /\ pendingRequests[i].dispatchedAt = 0

\* C18 (frame of claim and diagnostics): getPendingRequest changes nothing but
\* the dispatched and dispatchedAt fields of entries: the table keeps its
\* entries in place (same count), no timer is cancelled and no promise is
\* settled; getPendingCount and getDispatchedCount return the two counts and
\* change no state; and getDispatchedCount <= getPendingCount before and after
\* every step.
C18_FrameOfClaimAndDiagnostics ==
  [][/\ lastOp'.op = "getPendingRequest" =>
          /\ getPendingCount' = getPendingCount
          /\ \A i \in DOMAIN pendingRequests :
               [pendingRequests'[i] EXCEPT
                  !.dispatched = pendingRequests[i].dispatched,
                  !.dispatchedAt = pendingRequests[i].dispatchedAt] = pendingRequests[i]
          /\ UNCHANGED <<timers, promises>>
     /\ lastOp'.op \in {"getPendingCount", "getDispatchedCount"} =>
          /\ UNCHANGED <<now, skew, pendingRequests, timers, promises>>
          /\ lastOp'.ret = <<IF lastOp'.op = "getPendingCount"
                               THEN Len(pendingRequests)
                               ELSE Cardinality({i \in DOMAIN pendingRequests :
                                                   pendingRequests[i].dispatched})>>
     /\ getDispatchedCount <= getPendingCount
     /\ getDispatchedCount' <= getPendingCount']_vars

\* with two requests in the table, one of them handed out twice and the other
\* put back by that scan, the dispatched count has just been read as 1
C18_Witness ==
  /\ lastOp.op = "getDispatchedCount"
  /\ lastOp.ret = <<1>>
  /\ getPendingCount = 2
  /\ \E id \in Keys(pendingRequests) : Len(claimLog[id]) = 2
  /\ \E i \in DOMAIN pendingRequests :
        ~pendingRequests[i].dispatched /\ claimLog[pendingRequests[i].id] # <<>>

\* C19 (sweep exactness): cleanupOldRequests removes exactly the entries with
\* now - timestamp > 60s, cancels their timers and rejects their promises with
\* the timeout error; every entry with now - timestamp <= 60s stays in the
\* table, in the same order, with its fields and its timer as they were and its
\* promise still pending; no other promise changes.
C19_SweepExactness ==
  [][lastOp'.op = "cleanupOldRequests" =>
       LET old == {i \in DOMAIN pendingRequests :
                     DateNow - pendingRequests[i].timestamp > requestTimeout}
           oldIds == {pendingRequests[i].id : i \in old}
       IN /\ \A i \in old :
               LET id == pendingRequests[i].id IN
               /\ ~Has(pendingRequests', id)
               /\ id \notin DOMAIN timers'
               /\ promises'[id] =
                    [state |-> "rejected", value |-> TimeoutError, calls |-> 1]
          /\ pendingRequests' =
               SelectSeq(pendingRequests, LAMBDA r : r.id \notin oldIds)
          /\ \A i \in DOMAIN pendingRequests \ old :
               LET id == pendingRequests[i].id IN
               /\ id \in DOMAIN timers' /\ timers'[id] = timers[id]
               /\ promises'[id].state = "pending"
          /\ \A id \in DOMAIN promises \ oldIds : promises'[id] = promises[id]]_vars

\* the sweep has just run and left alone, timer armed, a dispatched entry
\* exactly 60s old; the older request has failed with the timeout error
C19_Witness ==
  /\ lastOp.op = "cleanupOldRequests"
  /\ DOMAIN promises = {1, 2}
  /\ promises[1].value = TimeoutError
  /\ Keys(pendingRequests) = {2}
  /\ pendingRequests[1].dispatched
  /\ now - pendingRequests[1].timestamp = requestTimeout
  /\ 2 \in DOMAIN timers

\* C20 (work-conserving claim): getPendingRequest returns null exactly when
\* the table is empty or every entry is dispatched with
\* now - dispatchedAt <= 45s; otherwise it returns the reply of an entry of the
\* table that was undispatched or stale, and that entry ends dispatched with
\* dispatchedAt = now while no other entry ends with a new dispatch mark.
C20_WorkConserving ==
  [][lastOp'.op = "getPendingRequest" =>
       LET none == \A i \in DOMAIN pendingRequests :
                     /\ pendingRequests[i].dispatched
                     /\ DateNow - pendingRequests[i].dispatchedAt <= dispatchStaleTimeout
       IN /\ (lastOp'.ret = NoRet) <=> none
          /\ lastOp'.ret # NoRet =>
               /\ \E i \in DOMAIN pendingRequests :
                    /\ pendingRequests[i].id = lastOp'.id
                    /\ lastOp'.ret = <<Reply(pendingRequests[i])>>
                    /\ \/ ~pendingRequests[i].dispatched
                       \/ DateNow - pendingRequests[i].dispatchedAt > dispatchStaleTimeout
                    /\ pendingRequests'[i].dispatched
                    /\ pendingRequests'[i].dispatchedAt = DateNow
               /\ \A i \in DOMAIN pendingRequests :
                    (pendingRequests[i].id # lastOp'.id /\ pendingRequests'[i].dispatched) =>
                       pendingRequests'[i] = pendingRequests[i]]_vars

\* a poll has just come back empty although the table holds two requests (both
\* handed out, the older one a second time, neither claim older than 45s)
C20_Witness ==
  /\ lastOp.op = "getPendingRequest"
  /\ lastOp.ret = NoRet
  /\ Len(pendingRequests) = 2
  /\ \A i \in DOMAIN pendingRequests : LiveDispatch(pendingRequests[i], DateNow)
  /\ \E id \in Keys(pendingRequests) : Len(claimLog[id]) = 2

\* C15 (single retry window): over its lifetime an id is returned by
\* getPendingRequest at most twice.
C15_AtMostTwoClaims ==
  \A id \in DOMAIN claimLog : Len(claimLog[id]) <= 2

\* C16 (clock robustness): whatever the wall clock does, a request is failed
\* with the timeout error only when 60s have elapsed since its submission, a
\* dispatched request is returned again only when more than 45s have elapsed
\* since its claim, and neither is put off: a sweep removes every entry
\* submitted more than 60s of elapsed time ago, and a poll finds a request
\* when one was claimed more than 45s of elapsed time ago.
C16_ClockRobust ==
  [][/\ \A id \in DOMAIN promises :
          (promises[id].state = "pending" /\ promises'[id].state = "rejected"
             /\ promises'[id].value = TimeoutError) =>
            now - sent[id].at >= requestTimeout
     /\ \A id \in Keys(pendingRequests) :
          /\ (Returned(id) /\ claimLog[id] # <<>>) =>
                now - claimLog[id][Len(claimLog[id])] > dispatchStaleTimeout
          /\ (lastOp'.op = "cleanupOldRequests" /\ now - sent[id].at > requestTimeout) =>
                ~Has(pendingRequests', id)
          /\ (lastOp'.op = "getPendingRequest" /\ claimLog[id] # <<>>
                /\ now - claimLog[id][Len(claimLog[id])] > dispatchStaleTimeout) =>
                lastOp'.ret # NoRet]_vars
====
